---- MODULE Spec2Model ----
(***************************************************************************)
(* Numerical-methods library of ApproximateMath.                           *)
(*                                                                         *)
(* Two versions of the library are modelled side by side:                  *)
(*   "ln"   src/src/lib/math-utils.ts : root-finders hard-wired to         *)
(*          f(x) = ln(x) - 1, derivative approximator with safeEvaluate /  *)
(*          safeDerivative;                                                *)
(*   "expr" src/unnamed/part_004 : root-finders taking an expression       *)
(*          string evaluated by mathjs, derivative approximator without    *)
(*          the safe wrappers.                                             *)
(*                                                                         *)
(* A JavaScript number is modelled as a pair <<tag, n>>:                   *)
(*   <<"fin", n>>   the finite value n / Scale (fixed point, Digits        *)
(*                  decimal places, |n| <= MaxFin),                        *)
(*   <<"inf", s>>   s = 1 : Infinity, s = -1 : -Infinity,                  *)
(*   <<"nan", 0>>   NaN.                                                   *)
(* Other values use the same shape: <<"null", 0>> is null,                 *)
(* <<"complex", 0>> a mathjs Complex object, <<"throw", 0>> marks a call   *)
(* that threw instead of producing a value.                                *)
(***************************************************************************)
EXTENDS Integers, Sequences, FiniteSets, TLC

(* ---------------------------------------------------------------------- *)
(* Bounds of the model                                                     *)
(* ---------------------------------------------------------------------- *)

\* number of decimal places carried by a finite number
Digits == 2

\* largest raw magnitude an intermediate product may take
MaxInt == 2000000000

\* largest iteration count drawn for a call
MaxIter == 3

\* largest precision drawn for a call
MaxPrecision == 2

RECURSIVE Pow10(_)
Pow10(k) == IF k <= 0 THEN 1 ELSE 10 * Pow10(k - 1)

Scale == Pow10(Digits)

MaxFin == MaxInt \div Scale

(* ---------------------------------------------------------------------- *)
(* JavaScript values                                                       *)
(* ---------------------------------------------------------------------- *)

Null == <<"null", 0>>
NaN == <<"nan", 0>>
PInf == <<"inf", 1>>
NInf == <<"inf", -1>>
Complex == <<"complex", 0>>
Thrown == <<"throw", 0>>

IsNull(v) == v[1] = "null"
IsNaN(v) == v[1] = "nan"
IsInf(v) == v[1] = "inf"
IsFin(v) == v[1] = "fin"
IsComplex(v) == v[1] = "complex"
IsThrown(v) == v[1] = "throw"
\* typeof v === 'number'
IsNumber(v) == v[1] \in {"fin", "inf", "nan"}

AbsInt(n) == IF n < 0 THEN -n ELSE n
SgnInt(n) == IF n < 0 THEN -1 ELSE 1

\* quotient rounded toward zero
TruncDiv(n, d) == SgnInt(n) * SgnInt(d) * (AbsInt(n) \div AbsInt(d))

SignedInf(s) == IF s < 0 THEN NInf ELSE PInf

\* a finite result, overflowing to +-Infinity beyond the finite range
Fin(n) == IF AbsInt(n) > MaxFin THEN SignedInf(n) ELSE <<"fin", n>>

\* the number whose value is the small integer k
Lit(k) == <<"fin", k * Scale>>

\* sign of a non-NaN number, zero counted as positive
Sgn(v) == IF IsInf(v) THEN v[2] ELSE SgnInt(v[2])

(* ---------------------------------------------------------------------- *)
(* JavaScript arithmetic on numbers (IEEE-754 special cases kept)          *)
(* ---------------------------------------------------------------------- *)

\* -a
Neg(a) ==
  IF IsNaN(a) THEN NaN
  ELSE IF IsInf(a) THEN SignedInf(-a[2])
  ELSE <<"fin", -a[2]>>

\* a + b
Add(a, b) ==
  IF IsNaN(a) \/ IsNaN(b) THEN NaN
  ELSE IF IsInf(a) /\ IsInf(b) THEN (IF a[2] = b[2] THEN a ELSE NaN)
  ELSE IF IsInf(a) THEN a
  ELSE IF IsInf(b) THEN b
  ELSE Fin(a[2] + b[2])

\* a - b
Sub(a, b) == Add(a, Neg(b))

\* a * b
Mul(a, b) ==
  IF IsNaN(a) \/ IsNaN(b) THEN NaN
  ELSE IF IsInf(a) \/ IsInf(b)
    THEN (IF (IsFin(a) /\ a[2] = 0) \/ (IsFin(b) /\ b[2] = 0)
            THEN NaN
            ELSE SignedInf(Sgn(a) * Sgn(b)))
  ELSE IF a[2] = 0 \/ b[2] = 0 THEN <<"fin", 0>>
  ELSE IF AbsInt(a[2]) > MaxInt \div AbsInt(b[2])
    THEN SignedInf(Sgn(a) * Sgn(b))
  ELSE Fin(TruncDiv(a[2] * b[2], Scale))

\* a / b
Div(a, b) ==
  IF IsNaN(a) \/ IsNaN(b) THEN NaN
  ELSE IF IsInf(a) /\ IsInf(b) THEN NaN
  ELSE IF IsInf(a) THEN SignedInf(Sgn(a) * Sgn(b))
  ELSE IF IsInf(b) THEN <<"fin", 0>>
  ELSE IF b[2] = 0
    THEN (IF a[2] = 0 THEN NaN ELSE SignedInf(Sgn(a)))
  ELSE Fin(TruncDiv(a[2] * Scale, b[2]))

\* Math.abs(a)
Abs(a) ==
  IF IsNaN(a) THEN NaN
  ELSE IF IsInf(a) THEN PInf
  ELSE <<"fin", AbsInt(a[2])>>

\* a < b  (false as soon as one side is NaN)
Lt(a, b) ==
  IF IsNaN(a) \/ IsNaN(b) THEN FALSE
  ELSE IF IsInf(a) THEN a[2] < 0 /\ b # NInf
  ELSE IF IsInf(b) THEN b[2] > 0
  ELSE a[2] < b[2]

\* isFinite(a)
isFinite(a) == IsFin(a)

\* a < 1e-10 for a >= 0 or NaN: 1e-10 lies below the quantum 1/Scale, so
\* among the representable numbers only 0 is smaller than it
LtEps(a) == IsFin(a) /\ a[2] = 0

(* ---------------------------------------------------------------------- *)
(* Rounding for output: parseFloat(v.toFixed(precision))                   *)
(* ---------------------------------------------------------------------- *)

\* n rounded to a multiple of unit, ties away from zero
RoundInt(n, unit) == SgnInt(n) * (((AbsInt(n) + unit \div 2) \div unit) * unit)

\* parseFloat(v.toFixed(p)): a Complex has no toFixed method (TypeError),
\* toFixed rejects p outside 0..100 (RangeError); NaN and +-Infinity
\* print and parse back as themselves
ParseFixed(v, p) ==
  IF ~IsNumber(v) THEN Thrown
  ELSE IF p < 0 \/ p > 100 THEN Thrown
  ELSE IF ~IsFin(v) THEN v
  ELSE IF p >= Digits THEN v
  ELSE Fin(RoundInt(v[2], Pow10(Digits - p)))

(* ---------------------------------------------------------------------- *)
(* Elementary functions                                                    *)
(* ---------------------------------------------------------------------- *)

\* e, as a raw fixed-point value
ERaw == (27183 * Scale) \div 10000

\* 2 z (1 + z^2/3 + z^4/5 + z^6/7) in Horner form, z2 = z^2
LnHorner(z, z2) ==
  (2 * z * (Scale + (z2 * (Scale \div 3 + (z2 * (Scale \div 5
     + (z2 * (Scale \div 7)) \div Scale)) \div Scale)) \div Scale)) \div Scale

\* z -> (z, z^2)
LnOfZ(z) == LnHorner(z, (z * z) \div Scale)

\* ln of the raw value n >= Scale, n <= ERaw, by the series
\* 2 (z + z^3/3 + z^5/5 + z^7/7), z = (x-1)/(x+1)
LnSeries(n) == LnOfZ(((n - Scale) * Scale) \div (n + Scale))

\* ln of the raw value n > 0, reduced to [1, e]
RECURSIVE LnRaw(_)
LnRaw(n) ==
  IF n < Scale THEN -LnRaw((Scale * Scale) \div n)
  ELSE IF n > ERaw THEN Scale + LnRaw((n * Scale) \div ERaw)
  ELSE LnSeries(n)

\* Math.log(v)
MathLog(v) ==
  IF IsNaN(v) THEN NaN
  ELSE IF IsInf(v) THEN (IF v[2] > 0 THEN PInf ELSE NaN)
  ELSE IF v[2] < 0 THEN NaN
  ELSE IF v[2] = 0 THEN NInf
  ELSE Fin(LnRaw(v[2]))

\* mathjs log(v): a negative argument gives a Complex, not NaN
MathjsLog(v) ==
  IF IsFin(v) /\ v[2] < 0 THEN Complex
  ELSE IF v = NInf THEN Complex
  ELSE MathLog(v)

\* mathjs floor(v)
MathjsFloor(v) ==
  IF IsFin(v) THEN <<"fin", (v[2] \div Scale) * Scale>> ELSE v

\* mathjs a + b and a - b: a Complex operand gives a Complex
MathjsAdd(a, b) == IF IsComplex(a) \/ IsComplex(b) THEN Complex ELSE Add(a, b)

MathjsSubtract(a, b) ==
  IF IsComplex(a) \/ IsComplex(b) THEN Complex ELSE Sub(a, b)

(* ---------------------------------------------------------------------- *)
(* The expression evaluator (mathjs), on a closed set of expressions       *)
(* ---------------------------------------------------------------------- *)

\* expressions a caller may pass
Expressions ==
  {"log(x) - 1", "x - log(x) + 1", "x^2 - 2", "x^3 - 3*x + 3", "2",
   "abs(x)", "floor(x)", "y", "x +"}

\* compile(expression) / parse: FALSE when the text is not an expression
\* (SyntaxError)
Parses(expression) == expression # "x +"

\* text of the symbolic derivative with respect to x, "throw" when the
\* engine cannot differentiate the expression
mathDerivative(expression) ==
  CASE expression = "log(x) - 1" -> "1 / x"
    [] expression = "x - log(x) + 1" -> "1 - 1 / x"
    [] expression = "x^2 - 2" -> "2 * x"
    [] expression = "x^3 - 3*x + 3" -> "3 * x^2 - 3"
    [] expression = "2" -> "0"
    [] expression = "abs(x)" -> "abs(x) / x"
    [] expression = "y" -> "0"
    [] OTHER -> "throw"

\* evaluate(expression, {x: val}): a number, a Complex, or Thrown
evaluate(expression, val) ==
  CASE expression = "log(x) - 1" -> MathjsSubtract(MathjsLog(val), Lit(1))
    [] expression = "x - log(x) + 1" ->
         MathjsAdd(MathjsSubtract(val, MathjsLog(val)), Lit(1))
    [] expression = "x^2 - 2" -> Sub(Mul(val, val), Lit(2))
    [] expression = "x^3 - 3*x + 3" ->
         Add(Sub(Mul(Mul(val, val), val), Mul(Lit(3), val)), Lit(3))
    [] expression = "3 * x^2 - 3" -> Sub(Mul(Lit(3), Mul(val, val)), Lit(3))
    [] expression = "2" -> Lit(2)
    [] expression = "abs(x)" -> Abs(val)
    [] expression = "abs(x) / x" -> Div(Abs(val), val)
    [] expression = "floor(x)" -> MathjsFloor(val)
    [] expression = "1 / x" -> Div(Lit(1), val)
    [] expression = "1 - 1 / x" -> Sub(Lit(1), Div(Lit(1), val))
    [] expression = "2 * x" -> Mul(Lit(2), val)
    [] expression = "0" -> Lit(0)
    [] OTHER -> Thrown

(* ---------------------------------------------------------------------- *)
(* State                                                                   *)
(* ---------------------------------------------------------------------- *)

VARIABLES
  complexAs,  \* what a JS arithmetic operator makes of a mathjs Complex
  version,    \* "ln" (src/lib/math-utils.ts) or "expr" (part_004)
  fn,         \* the function being called, "none" before the call
  args,       \* its arguments
  pc,         \* "idle", "loop", "exit" (loop left), "done"
  i,          \* loop counter
  x,          \* current iterate (fixed point, Newton-Raphson)
  prevX,      \* previous iterate of fixedPointIteration, Null at first
  x0,         \* older point of the secant pair
  x1,         \* newer point of the secant pair
  results,    \* the list being built, returned on completion
  derivative, \* value returned by approximateDerivative
  outcome,    \* "none", "returned" or "threw"
  passes,     \* history: loop passes started by the call
  degenAt,    \* history: pass at which the degeneracy test was true, or 0
  iterates,   \* history: the unrounded iterates, initial guess(es) first
  earlier,    \* history: an earlier finished call and what it gave back
  form,       \* the form component: values submitted, results and error shown
  cell        \* an error cell of a result table and the class it was given

vars ==
  <<complexAs, cell, version, fn, args, pc, i, x, prevX, x0, x1, results,
    derivative, outcome, passes, degenAt, iterates, earlier, form>>

ToNumber(v) == IF IsComplex(v) THEN complexAs ELSE v

\* an initial guess so large that 1/x underflows to 0
Huge == Fin(Scale * Scale + Scale)

Guesses == {Lit(0), Lit(2), Lit(3), Lit(-1), Huge}

Precisions == 1..MaxPrecision

Versions == {"ln", "expr"}

NoArgs ==
  [expression |-> "", guess1 |-> Null, guess2 |-> Null, iterations |-> 0,
   precision |-> 0, h |-> Null]

\* useState(null) twice, nothing submitted yet
NoForm ==
  [component |-> "none", status |-> "none", values |-> [method |-> "none"],
   results |-> [kind |-> "null"], error |-> "null"]

Init ==
  /\ complexAs \in {Lit(0), NaN}
  /\ version = "none"
  /\ fn = "none"
  /\ args = NoArgs
  /\ pc = "idle"
  /\ i = 0
  /\ x = Null
  /\ prevX = Null
  /\ x0 = Null
  /\ x1 = Null
  /\ results = <<>>
  /\ derivative = [kind |-> "none"]
  /\ outcome = "none"
  /\ passes = 0
  /\ degenAt = 0
  /\ iterates = <<>>
  /\ earlier = [kind |-> "none"]
  /\ form = NoForm
  /\ cell = [kind |-> "none"]

\* a record of the result list
IterationResult(iteration, approximation, relativeError) ==
  [iteration |-> iteration, approximation |-> approximation,
   relativeError |-> relativeError]

\* variant: the error taken relative to the current iterate instead of the
\* new one
RelativeError_OverCurrent(nextX, cur) ==
  Mul(Abs(Div(Sub(ToNumber(nextX), cur), cur)), Lit(100))

\* Math.abs((nextX - x) / nextX) * 100
RelativeError(nextX, cur) ==
  Mul(Abs(Div(Sub(ToNumber(nextX), cur), ToNumber(nextX))), Lit(100))

\* effect of one loop pass: what is pushed, whether the loop goes on, and
\* whether the pass found the degeneracy test true
Push(rec, nextX) ==
  [kind |-> "push", rec |-> rec, nextX |-> nextX, degenerate |-> FALSE]
PushBreak(rec) ==
  [kind |-> "pushbreak", rec |-> rec, nextX |-> Null, degenerate |-> TRUE]
Break ==
  [kind |-> "break", rec |-> Null, nextX |-> Null, degenerate |-> TRUE]
Throw ==
  [kind |-> "throw", rec |-> Null, nextX |-> Null, degenerate |-> FALSE]

\* variant: the error tested for truthiness, so that 0 is stored as null
RoundNullable_ZeroAsNull(v, precision) ==
  IF IsNull(v) \/ v = Lit(0) THEN Null ELSE ParseFixed(v, precision)

\* null stays null, a number is rounded
RoundNullable(v, precision) ==
  IF IsNull(v) THEN Null ELSE ParseFixed(v, precision)

\* variant: the rounded approximation carried into the next pass
PushRecord_CarryRounded(iteration, approximation, relativeError, nextX) ==
  IF IsThrown(approximation) \/ IsThrown(relativeError) THEN Throw
  ELSE Push(IterationResult(iteration, approximation, relativeError),
            approximation)

\* the push itself, once the two fields are computed; a toFixed that threw
\* aborts the pass before anything is pushed
PushRecord(iteration, approximation, relativeError, nextX) ==
  IF IsThrown(approximation) \/ IsThrown(relativeError) THEN Throw
  ELSE Push(IterationResult(iteration, approximation, relativeError), nextX)

\* variant: records numbered from 0
PushRounded_ZeroBased(iteration, nextX, relativeError, precision) ==
  PushRecord(iteration - 1, ParseFixed(nextX, precision),
             RoundNullable(relativeError, precision), nextX)

\* results.push({...}) with the two rounded fields; a toFixed that throws
\* aborts the pass before anything is pushed
PushRounded(iteration, nextX, relativeError, precision) ==
  PushRecord(iteration, ParseFixed(nextX, precision),
             RoundNullable(relativeError, precision), nextX)

(* ---------------------------------------------------------------------- *)
(* Loop bodies, src/lib/math-utils.ts (f(x) = ln(x) - 1 hard-wired)        *)
(* ---------------------------------------------------------------------- *)

\* f = Math.log(val) - 1
fLn(val) == Sub(MathLog(val), Lit(1))

\* fPrime = 1 / val
fPrimeLn(val) == Div(Lit(1), val)

\* G = val - Math.log(val) + 1
G(val) == Add(Sub(val, MathLog(val)), Lit(1))

\* variant: the error computed from the first pass on
fixedPointStepLn_ErrorFromStart(nextX, cur, prev, iteration, precision) ==
  PushRounded(iteration, nextX, RelativeError(nextX, cur), precision)

\* fixedPointIteration, a pass after nextX = G(x); the test on 10^-precision
\* that follows the push has an empty body
fixedPointStepLn(nextX, cur, prev, iteration, precision) ==
  PushRounded(iteration, nextX,
              IF ~IsNull(prev) THEN RelativeError(nextX, cur) ELSE Null,
              precision)

\* one pass of fixedPointIteration
fixedPointBodyLn(cur, prev, iteration, precision) ==
  fixedPointStepLn(G(cur), cur, prev, iteration, precision)

\* x - fx / fpx
NewtonNext(cur, fx, fpx) == Sub(cur, Div(fx, fpx))

\* variant: the loop left right after the push
ThenBreak(pushed) ==
  IF pushed.kind = "push" THEN [pushed EXCEPT !.kind = "pushbreak"]
  ELSE pushed

\* variant: the loop left as soon as it has pushed a record
newtonRaphsonStepLn_StopAfterPush(fx, fpx, cur, iteration, precision) ==
  IF LtEps(Abs(fpx))
    THEN PushBreak(IterationResult(iteration, cur, Null))
    ELSE ThenBreak(PushRounded(iteration, NewtonNext(cur, fx, fpx),
                               RelativeError(NewtonNext(cur, fx, fpx), cur),
                               precision))

\* variant: a degenerate derivative raised as an exception
newtonRaphsonStepLn_ThrowOnDegenerate(fx, fpx, cur, iteration, precision) ==
  IF LtEps(Abs(fpx))
    THEN Throw
    ELSE PushRounded(iteration, NewtonNext(cur, fx, fpx),
                     RelativeError(NewtonNext(cur, fx, fpx), cur), precision)

\* variant: the loop left at a degenerate derivative without a record
newtonRaphsonStepLn_NoExtraRecord(fx, fpx, cur, iteration, precision) ==
  IF LtEps(Abs(fpx))
    THEN Break
    ELSE PushRounded(iteration, NewtonNext(cur, fx, fpx),
                     RelativeError(NewtonNext(cur, fx, fpx), cur), precision)

\* newtonRaphson, a pass after fx = f(x) and fpx = fPrime(x)
newtonRaphsonStepLn(fx, fpx, cur, iteration, precision) ==
  IF LtEps(Abs(fpx))
    THEN PushBreak(IterationResult(iteration, cur, Null))
    ELSE PushRounded(iteration, NewtonNext(cur, fx, fpx),
                     RelativeError(NewtonNext(cur, fx, fpx), cur), precision)

\* one pass of newtonRaphson
newtonRaphsonBodyLn(cur, iteration, precision) ==
  newtonRaphsonStepLn(fLn(cur), fPrimeLn(cur), cur, iteration, precision)

\* x1 - fx1 * (x1 - x0) / (fx1 - fx0)
SecantNext(older, newer, fx0, fx1) ==
  Sub(newer, Div(Mul(fx1, Sub(newer, older)), Sub(fx1, fx0)))

\* secantMethod, a pass after fx0 = f(x0) and fx1 = f(x1)
secantStepLn(fx0, fx1, older, newer, iteration, precision) ==
  IF LtEps(Abs(Sub(fx1, fx0)))
    THEN PushBreak(IterationResult(iteration, newer, Null))
    ELSE PushRounded(iteration, SecantNext(older, newer, fx0, fx1),
                     RelativeError(SecantNext(older, newer, fx0, fx1), newer),
                     precision)

\* one pass of secantMethod
secantBodyLn(older, newer, iteration, precision) ==
  secantStepLn(fLn(older), fLn(newer), older, newer, iteration, precision)

(* ---------------------------------------------------------------------- *)
(* Loop bodies, part_004 (expression evaluated by mathjs)                  *)
(* ---------------------------------------------------------------------- *)

\* evaluate(symbolicDerivativeNode.toString(), {x: val})
evaluateNode(symbolicDerivativeNode, val) ==
  IF symbolicDerivativeNode = "throw" THEN Thrown
  ELSE evaluate(symbolicDerivativeNode, val)

\* fPrime: differentiate, print, evaluate; Thrown if either step throws
fPrimeExpr(expression, val) == evaluateNode(mathDerivative(expression), val)

\* variant: the loop left once the error is below 10^-precision
BreakIfConverged(pushed, precision) ==
  IF /\ pushed.kind = "push"
     /\ ~IsNull(pushed.rec.relativeError)
     /\ Lt(pushed.rec.relativeError, Fin(Pow10(Digits - precision)))
    THEN [pushed EXCEPT !.kind = "pushbreak"]
    ELSE pushed

\* variant: the loop left once the error is below 10^-precision
fixedPointStepExpr_ConvergenceBreak(nextX, cur, prev, iteration, precision) ==
  IF IsThrown(nextX) THEN Throw
  ELSE BreakIfConverged(
         PushRounded(iteration, nextX,
                     IF ~IsNull(prev) THEN RelativeError(nextX, cur)
                     ELSE Null,
                     precision),
         precision)

\* fixedPointIteration, a pass after nextX = g(x), which may have thrown
fixedPointStepExpr(nextX, cur, prev, iteration, precision) ==
  IF IsThrown(nextX) THEN Throw
  ELSE PushRounded(iteration, nextX,
                   IF ~IsNull(prev) THEN RelativeError(nextX, cur) ELSE Null,
                   precision)

\* one pass of fixedPointIteration
fixedPointBodyExpr(gExpression, cur, prev, iteration, precision) ==
  fixedPointStepExpr(evaluate(gExpression, cur), cur, prev, iteration,
                     precision)

\* variant: a record pushed at the degenerate step before leaving
newtonRaphsonStepExpr_PushOnDegenerate(fx, fpx, cur, iteration, precision) ==
  IF IsThrown(fx) \/ IsThrown(fpx) THEN Throw
  ELSE IF LtEps(Abs(ToNumber(fpx)))
    THEN PushBreak(IterationResult(iteration, cur, Null))
  ELSE PushRounded(
         iteration, NewtonNext(cur, ToNumber(fx), ToNumber(fpx)),
         RelativeError(NewtonNext(cur, ToNumber(fx), ToNumber(fpx)), cur),
         precision)

\* variant: a derivative that cannot be computed ends the loop like a
\* degenerate one, the records pushed so far being returned
newtonRaphsonStepExpr_BreakOnFailedDerivative(fx, fpx, cur, iteration, precision) ==
  IF IsThrown(fx) THEN Throw
  ELSE IF IsThrown(fpx) THEN Break
  ELSE IF LtEps(Abs(ToNumber(fpx))) THEN Break
  ELSE PushRounded(
         iteration, NewtonNext(cur, ToNumber(fx), ToNumber(fpx)),
         RelativeError(NewtonNext(cur, ToNumber(fx), ToNumber(fpx)), cur),
         precision)

\* newtonRaphson, a pass after fx = f(x) and fpx = fPrime(x), either of
\* which may have thrown
newtonRaphsonStepExpr(fx, fpx, cur, iteration, precision) ==
  IF IsThrown(fx) \/ IsThrown(fpx) THEN Throw
  ELSE IF LtEps(Abs(ToNumber(fpx))) THEN Break
  ELSE PushRounded(
         iteration, NewtonNext(cur, ToNumber(fx), ToNumber(fpx)),
         RelativeError(NewtonNext(cur, ToNumber(fx), ToNumber(fpx)), cur),
         precision)

\* one pass of newtonRaphson
newtonRaphsonBodyExpr(expression, cur, iteration, precision) ==
  newtonRaphsonStepExpr(evaluate(expression, cur),
                        fPrimeExpr(expression, cur), cur, iteration, precision)

\* variant: a record pushed at the degenerate step before leaving
secantStepExpr_PushOnDegenerate(fx0, fx1, older, newer, iteration, precision) ==
  IF IsThrown(fx0) \/ IsThrown(fx1) THEN Throw
  ELSE IF LtEps(Abs(Sub(ToNumber(fx1), ToNumber(fx0))))
    THEN PushBreak(IterationResult(iteration, newer, Null))
  ELSE PushRounded(
         iteration, SecantNext(older, newer, ToNumber(fx0), ToNumber(fx1)),
         RelativeError(SecantNext(older, newer, ToNumber(fx0), ToNumber(fx1)),
                       newer),
         precision)

\* secantMethod, a pass after fx0 = f(x0) and fx1 = f(x1), either of which
\* may have thrown
secantStepExpr(fx0, fx1, older, newer, iteration, precision) ==
  IF IsThrown(fx0) \/ IsThrown(fx1) THEN Throw
  ELSE IF LtEps(Abs(Sub(ToNumber(fx1), ToNumber(fx0)))) THEN Break
  ELSE PushRounded(
         iteration, SecantNext(older, newer, ToNumber(fx0), ToNumber(fx1)),
         RelativeError(SecantNext(older, newer, ToNumber(fx0), ToNumber(fx1)),
                       newer),
         precision)

\* one pass of secantMethod
secantBodyExpr(expression, older, newer, iteration, precision) ==
  secantStepExpr(evaluate(expression, older), evaluate(expression, newer),
                 older, newer, iteration, precision)

(* ---------------------------------------------------------------------- *)
(* Calls and loop passes                                                   *)
(* ---------------------------------------------------------------------- *)

\* variant: the loop counter not advanced after a push
ApplyPass_CounterStuck(r) ==
  /\ passes' = passes + 1
  /\ results' = IF r.kind \in {"push", "pushbreak"}
                  THEN Append(results, r.rec) ELSE results
  /\ i' = i
  /\ pc' = CASE r.kind = "push" -> "loop"
             [] r.kind = "throw" -> "done"
             [] OTHER -> "exit"
  /\ outcome' = IF r.kind = "throw" THEN "threw" ELSE outcome
  /\ degenAt' = IF r.degenerate THEN i ELSE degenAt
  /\ iterates' = IF r.kind = "push" THEN Append(iterates, r.nextX)
                 ELSE iterates

\* variant: the list replaced by one holding the new record only
ApplyPass_KeepsLastOnly(r) ==
  /\ passes' = passes + 1
  /\ results' = IF r.kind \in {"push", "pushbreak"}
                  THEN <<r.rec>> ELSE results
  /\ i' = IF r.kind = "push" THEN i + 1 ELSE i
  /\ pc' = CASE r.kind = "push" -> "loop"
             [] r.kind = "throw" -> "done"
             [] OTHER -> "exit"
  /\ outcome' = IF r.kind = "throw" THEN "threw" ELSE outcome
  /\ degenAt' = IF r.degenerate THEN i ELSE degenAt
  /\ iterates' = IF r.kind = "push" THEN Append(iterates, r.nextX)
                 ELSE iterates

\* the part of a pass common to the three loops: push, advance, leave
ApplyPass(r) ==
  /\ passes' = passes + 1
  /\ results' = IF r.kind \in {"push", "pushbreak"}
                  THEN Append(results, r.rec) ELSE results
  /\ i' = IF r.kind = "push" THEN i + 1 ELSE i
  /\ pc' = CASE r.kind = "push" -> "loop"
             [] r.kind = "throw" -> "done"
             [] OTHER -> "exit"
  /\ outcome' = IF r.kind = "throw" THEN "threw" ELSE outcome
  /\ degenAt' = IF r.degenerate THEN i ELSE degenAt
  /\ iterates' = IF r.kind = "push" THEN Append(iterates, r.nextX)
                 ELSE iterates

\* variant: one list at module level, still holding what the earlier call
\* pushed
NewResults_SharedAcrossCalls ==
  IF earlier.kind = "call" THEN earlier.results ELSE <<>>

\* const results: IterationResult[] = [], a fresh list in every call
NewResults == <<>>

\* entry of fixedPointIteration: results = [], x = initialGuess, prevX = null
fixedPointIteration(v, gExpression, initialGuess, iterations, precision) ==
  /\ pc = "idle"
  /\ version' = v
  /\ fn' = "fixedPointIteration"
  /\ args' = [NoArgs EXCEPT !.expression = gExpression,
                            !.guess1 = initialGuess,
                            !.iterations = iterations,
                            !.precision = precision]
  /\ results' = NewResults
  /\ x' = initialGuess
  /\ prevX' = Null
  /\ i' = 1
  /\ pc' = "loop"
  /\ iterates' = <<initialGuess>>
  /\ UNCHANGED <<complexAs, cell, x0, x1, derivative, outcome, passes, degenAt,
                 earlier>>

\* variant: x never replaced, every pass applying g to the initial guess
fixedPointAdvance_IterateNotAdvanced(r) ==
  /\ ApplyPass(r)
  /\ prevX' = IF r.kind = "push" THEN x ELSE prevX
  /\ x' = x

\* end of a pass of fixedPointIteration: prevX = x; x = nextX
fixedPointAdvance(r) ==
  /\ ApplyPass(r)
  /\ prevX' = IF r.kind = "push" THEN x ELSE prevX
  /\ x' = IF r.kind = "push" THEN r.nextX ELSE x

\* one pass of the loop of fixedPointIteration
fixedPointPass ==
  /\ pc = "loop"
  /\ fn = "fixedPointIteration"
  /\ i <= args.iterations
  /\ fixedPointAdvance(IF version = "ln"
                         THEN fixedPointBodyLn(x, prevX, i, args.precision)
                         ELSE fixedPointBodyExpr(args.expression, x, prevX, i,
                                                 args.precision))
  /\ UNCHANGED <<complexAs, cell, version, fn, args, x0, x1, derivative,
                 earlier, form>>

\* entry of newtonRaphson: results = [], x = initialGuess
newtonRaphson(v, expression, initialGuess, iterations, precision) ==
  /\ pc = "idle"
  /\ version' = v
  /\ fn' = "newtonRaphson"
  /\ args' = [NoArgs EXCEPT !.expression = expression,
                            !.guess1 = initialGuess,
                            !.iterations = iterations,
                            !.precision = precision]
  /\ results' = NewResults
  /\ x' = initialGuess
  /\ i' = 1
  /\ pc' = "loop"
  /\ iterates' = <<initialGuess>>
  /\ UNCHANGED <<complexAs, cell, prevX, x0, x1, derivative, outcome, passes,
                 degenAt,
                 earlier>>

\* end of a pass of newtonRaphson: x = nextX
newtonRaphsonAdvance(r) ==
  /\ ApplyPass(r)
  /\ x' = IF r.kind = "push" THEN r.nextX ELSE x

\* one pass of the loop of newtonRaphson
newtonRaphsonPass ==
  /\ pc = "loop"
  /\ fn = "newtonRaphson"
  /\ i <= args.iterations
  /\ newtonRaphsonAdvance(IF version = "ln"
                            THEN newtonRaphsonBodyLn(x, i, args.precision)
                            ELSE newtonRaphsonBodyExpr(args.expression, x, i,
                                                       args.precision))
  /\ UNCHANGED <<complexAs, cell, version, fn, args, prevX, x0, x1, derivative,
                 earlier, form>>

\* entry of secantMethod: results = [], x0 = guess1, x1 = guess2
secantMethod(v, expression, guess1, guess2, iterations, precision) ==
  /\ pc = "idle"
  /\ version' = v
  /\ fn' = "secantMethod"
  /\ args' = [NoArgs EXCEPT !.expression = expression,
                            !.guess1 = guess1,
                            !.guess2 = guess2,
                            !.iterations = iterations,
                            !.precision = precision]
  /\ results' = NewResults
  /\ x0' = guess1
  /\ x1' = guess2
  /\ i' = 1
  /\ pc' = "loop"
  /\ iterates' = <<guess1, guess2>>
  /\ UNCHANGED <<complexAs, cell, x, prevX, derivative, outcome, passes, degenAt,
                 earlier>>

\* variant: the older point of the pair kept, only x1 replaced
secantAdvance_KeepsOlderPoint(r) ==
  /\ ApplyPass(r)
  /\ x0' = x0
  /\ x1' = IF r.kind = "push" THEN r.nextX ELSE x1

\* end of a pass of secantMethod: x0 = x1; x1 = nextX
secantAdvance(r) ==
  /\ ApplyPass(r)
  /\ x0' = IF r.kind = "push" THEN x1 ELSE x0
  /\ x1' = IF r.kind = "push" THEN r.nextX ELSE x1

\* one pass of the loop of secantMethod
secantPass ==
  /\ pc = "loop"
  /\ fn = "secantMethod"
  /\ i <= args.iterations
  /\ secantAdvance(IF version = "ln"
                     THEN secantBodyLn(x0, x1, i, args.precision)
                     ELSE secantBodyExpr(args.expression, x0, x1, i,
                                         args.precision))
  /\ UNCHANGED <<complexAs, cell, version, fn, args, x, prevX, derivative,
                 earlier, form>>

\* return results: the loop ran out (i > iterations) or was left by break
Return ==
  /\ \/ pc = "exit"
     \/ pc = "loop" /\ i > args.iterations
  /\ pc' = "done"
  /\ outcome' = "returned"
  /\ UNCHANGED <<complexAs, cell, version, fn, args, i, x, prevX, x0, x1, results,
                 derivative, passes, degenAt, iterates,
                 earlier, form>>

(* ---------------------------------------------------------------------- *)
(* Derivative approximation                                                *)
(* ---------------------------------------------------------------------- *)

\* the two shapes approximateDerivative returns
DerivativeResult(forward, backward, centered, forwardError, backwardError, centeredError, symbolic) ==
  [kind |-> "result", forward |-> forward, backward |-> backward,
   centered |-> centered, forwardError |-> forwardError,
   backwardError |-> backwardError, centeredError |-> centeredError,
   symbolic |-> symbolic]

ErrorResult(message) == [kind |-> "error", error |-> message]

\* src/lib/math-utils.ts: evaluation that never throws and yields only
\* finite numbers, null otherwise
finiteNumberOrNull(result) ==
  IF IsThrown(result) THEN Null
  ELSE IF ~IsNumber(result) \/ ~isFinite(result) THEN Null
  ELSE result

\* src/lib/math-utils.ts: safeEvaluate
safeEvaluate(node, val) == finiteNumberOrNull(evaluate(node, val))

\* src/lib/math-utils.ts: differentiation that never throws, "null" when
\* the engine fails
safeDerivative(expression) ==
  IF mathDerivative(expression) = "throw" THEN "null"
  ELSE mathDerivative(expression)

\* variant: the guard applied to the approximation instead of the exact
\* value, a null exact value then counting as 0 in the arithmetic
calculateError_TestsApprox(approx, exact) ==
  LET e == IF IsNull(exact) THEN Lit(0) ELSE exact
  IN IF IsNull(approx) THEN Null
     ELSE IF LtEps(Abs(approx)) THEN Null
     ELSE Mul(Abs(Div(Sub(approx, e), e)), Lit(100))

\* src/lib/math-utils.ts: relative error against the symbolic value
calculateError(approx, exact) ==
  IF IsNull(exact) THEN Null
  ELSE IF LtEps(Abs(exact)) THEN Null
  ELSE Mul(Abs(Div(Sub(approx, exact), exact)), Lit(100))

\* variant: the object built outside the try block, a toFixed that threw
\* reaching the caller in place of a field
ReturnObject_Unprotected(forward, backward, centered, forwardError, backwardError, centeredError, symbolic, failed) ==
  DerivativeResult(forward, backward, centered, forwardError,
                   backwardError, centeredError, symbolic)

\* the object literal of a return statement of approximateDerivative, given
\* its seven field values; a toFixed that threw among them leads to the catch
\* clause, which returns `failed`
ReturnObject(forward, backward, centered, forwardError, backwardError, centeredError, symbolic, failed) ==
  IF \/ IsThrown(forward) \/ IsThrown(backward) \/ IsThrown(centered)
     \/ IsThrown(forwardError) \/ IsThrown(backwardError)
     \/ IsThrown(centeredError) \/ IsThrown(symbolic)
    THEN failed
    ELSE DerivativeResult(forward, backward, centered, forwardError,
                          backwardError, centeredError, symbolic)

\* src/lib/math-utils.ts: the symbolic derivative at x, null when it cannot
\* be obtained or has no finite value
symbolicLn(expression, guessValue) ==
  IF safeDerivative(expression) # "null"
    THEN safeEvaluate(safeDerivative(expression), guessValue)
    ELSE Null

\* src/lib/math-utils.ts: the errors of the three differences and the
\* returned object, every field rounded
roundedObjectLn(forwardDiff, backwardDiff, centeredDiff, symbolicDerivativeValue, precision) ==
  ReturnObject(
    ParseFixed(forwardDiff, precision),
    ParseFixed(backwardDiff, precision),
    ParseFixed(centeredDiff, precision),
    RoundNullable(calculateError(forwardDiff, symbolicDerivativeValue),
                  precision),
    RoundNullable(calculateError(backwardDiff, symbolicDerivativeValue),
                  precision),
    RoundNullable(calculateError(centeredDiff, symbolicDerivativeValue),
                  precision),
    RoundNullable(symbolicDerivativeValue, precision),
    ErrorResult("An error occurred during derivative calculation"))

\* variant: the centered difference divided by h instead of 2h
differencesLn_CenteredOverH(f_x, f_x_plus_h, f_x_minus_h, symbolicDerivativeValue, h, precision) ==
  IF IsNull(f_x) \/ IsNull(f_x_plus_h) \/ IsNull(f_x_minus_h)
    THEN ErrorResult("Failed to evaluate expression at necessary points")
    ELSE roundedObjectLn(Div(Sub(f_x_plus_h, f_x), h),
                         Div(Sub(f_x, f_x_minus_h), h),
                         Div(Sub(f_x_plus_h, f_x_minus_h), h),
                         symbolicDerivativeValue, precision)

\* src/lib/math-utils.ts: the null test on the three values of f, then the
\* three differences
differencesLn(f_x, f_x_plus_h, f_x_minus_h, symbolicDerivativeValue, h, precision) ==
  IF IsNull(f_x) \/ IsNull(f_x_plus_h) \/ IsNull(f_x_minus_h)
    THEN ErrorResult("Failed to evaluate expression at necessary points")
    ELSE roundedObjectLn(Div(Sub(f_x_plus_h, f_x), h),
                         Div(Sub(f_x, f_x_minus_h), h),
                         Div(Sub(f_x_plus_h, f_x_minus_h), Mul(Lit(2), h)),
                         symbolicDerivativeValue, precision)

\* src/lib/math-utils.ts: approximateDerivative
approximateDerivativeLn(expression, guessValue, h, precision) ==
  IF ~Parses(expression) THEN ErrorResult("Syntax error in expression")
  ELSE differencesLn(safeEvaluate(expression, guessValue),
                     safeEvaluate(expression, Add(guessValue, h)),
                     safeEvaluate(expression, Sub(guessValue, h)),
                     symbolicLn(expression, guessValue), h, precision)

\* part_004: relative error against the symbolic value, which is whatever
\* evaluate returned
calcError(approx, exact) ==
  IF IsNull(exact) THEN Null
  ELSE IF LtEps(Abs(ToNumber(exact))) THEN Null
  ELSE Mul(Abs(Div(Sub(approx, ToNumber(exact)), ToNumber(exact))), Lit(100))

\* part_004: the symbolic derivative at x, Thrown when differentiation or
\* evaluation throws
symbolicExpr(expression, guessValue) ==
  evaluateNode(mathDerivative(expression), guessValue)

\* part_004: the errors of the three differences and the returned object;
\* the errors are stored as computed
roundedObjectExpr(forwardDiff, backwardDiff, centeredDiff, symbolicDerivativeValue, precision) ==
  ReturnObject(
    ParseFixed(forwardDiff, precision),
    ParseFixed(backwardDiff, precision),
    ParseFixed(centeredDiff, precision),
    calcError(forwardDiff, symbolicDerivativeValue),
    calcError(backwardDiff, symbolicDerivativeValue),
    calcError(centeredDiff, symbolicDerivativeValue),
    ParseFixed(symbolicDerivativeValue, precision),
    ErrorResult("An error occurred during derivative calculation"))

\* part_004: the three differences, reached only if nothing has thrown
differencesExpr(f_x, f_x_plus_h, f_x_minus_h, symbolicDerivativeValue, h, precision) ==
  IF \/ IsThrown(f_x) \/ IsThrown(f_x_plus_h) \/ IsThrown(f_x_minus_h)
     \/ IsThrown(symbolicDerivativeValue)
    THEN ErrorResult("An error occurred during derivative calculation")
    ELSE roundedObjectExpr(
           Div(Sub(ToNumber(f_x_plus_h), ToNumber(f_x)), h),
           Div(Sub(ToNumber(f_x), ToNumber(f_x_minus_h)), h),
           Div(Sub(ToNumber(f_x_plus_h), ToNumber(f_x_minus_h)),
               Mul(Lit(2), h)),
           symbolicDerivativeValue, precision)

\* part_004: approximateDerivative; every throw inside ends in the one
\* catch clause
approximateDerivativeExpr(expression, guessValue, h, precision) ==
  IF ~Parses(expression)
    THEN ErrorResult("An error occurred during derivative calculation")
  ELSE differencesExpr(evaluate(expression, guessValue),
                       evaluate(expression, Add(guessValue, h)),
                       evaluate(expression, Sub(guessValue, h)),
                       symbolicExpr(expression, guessValue), h, precision)

\* step sizes a caller may pass: 0.1 and 1
Steps == {Fin(Scale \div 10), Lit(1)}

\* a call of approximateDerivative, which has no loop and never throws
approximateDerivative(v, expression, guessValue, h, precision) ==
  /\ pc = "idle"
  /\ version' = v
  /\ fn' = "approximateDerivative"
  /\ args' = [NoArgs EXCEPT !.expression = expression,
                            !.guess1 = guessValue,
                            !.h = h,
                            !.precision = precision]
  /\ derivative' = IF v = "ln"
                     THEN approximateDerivativeLn(expression, guessValue, h,
                                                  precision)
                     ELSE approximateDerivativeExpr(expression, guessValue, h,
                                                    precision)
  /\ pc' = "done"
  /\ outcome' = "returned"
  /\ UNCHANGED <<complexAs, cell, i, x, prevX, x0, x1, results, passes, degenAt,
                 iterates,
                 earlier>>

\* the expression argument: the ln version takes none
ExpressionsOf(v) == IF v = "ln" THEN {""} ELSE Expressions

Next ==
  \/ \E v \in Versions : \E e \in ExpressionsOf(v), g1 \in Guesses,
        n \in 1..MaxIter, p \in Precisions :
       fixedPointIteration(v, e, g1, n, p) /\ UNCHANGED form
  \/ fixedPointPass
  \/ \E v \in Versions : \E e \in ExpressionsOf(v), g1 \in Guesses,
        n \in 1..MaxIter, p \in Precisions :
       newtonRaphson(v, e, g1, n, p) /\ UNCHANGED form
  \/ newtonRaphsonPass
  \/ \E v \in Versions : \E e \in ExpressionsOf(v), g1 \in Guesses,
        g2 \in Guesses, n \in 1..MaxIter, p \in Precisions :
       secantMethod(v, e, g1, g2, n, p) /\ UNCHANGED form
  \/ secantPass
  \/ Return
  \/ \E v \in Versions, e \in Expressions, g1 \in Guesses, h \in Steps,
        p \in Precisions :
       approximateDerivative(v, e, g1, h, p) /\ UNCHANGED form

Spec == Init /\ [][Next]_vars

\* a pass of the loop of one of the three root-finders
PassStep == fixedPointPass \/ newtonRaphsonPass \/ secantPass

\* the loop condition i <= iterations holds at the head of the loop. A pass
\* assigns every variable and raises passes, so this is ENABLED <<PassStep>>_vars
InLoop == pc = "loop" /\ i <= args.iterations

\* weak fairness of the passes, WF_vars(PassStep), with ENABLED
\* <<PassStep>>_vars written out as InLoop
PassesTaken == []<>(~InLoop) \/ []<><<PassStep>>_vars

\* the same with the steps of a started call actually taken: the code of a
\* call runs to its end without waiting for anything; whether a call is made
\* is up to the caller
FairSpec == Spec /\ PassesTaken /\ WF_vars(Return)

(* ---------------------------------------------------------------------- *)
(* Calls of approximateDerivative with any precision                       *)
(* ---------------------------------------------------------------------- *)

\* precisions a caller of the library may pass, among them two that
\* Number.prototype.toFixed rejects with a RangeError
AnyPrecisions == {-1, 1, MaxPrecision, 101}

\* step sizes a caller of the library may pass, 0 included
AnySteps == Steps \cup {Lit(0)}

NextDerivative ==
  \E v \in Versions, e \in Expressions, g1 \in Guesses, h \in AnySteps,
     p \in AnyPrecisions :
    approximateDerivative(v, e, g1, h, p) /\ UNCHANGED form

SpecDerivative == Init /\ [][NextDerivative]_vars

(* ---------------------------------------------------------------------- *)
(* Successive calls                                                        *)
(* ---------------------------------------------------------------------- *)

\* what the caller has in hand when a call is over: the arguments it passed
\* and the value returned, or the fact that the call threw
Snapshot ==
  [kind |-> "call", version |-> version, fn |-> fn, args |-> args,
   outcome |-> outcome,
   results |-> IF outcome = "returned" THEN results ELSE <<>>,
   derivative |-> derivative]

\* the caller is back in control after a finished call and may call again;
\* the locals of the finished call are gone, the first finished call is
\* remembered
Again ==
  /\ pc = "done"
  /\ earlier' = IF earlier.kind = "none" THEN Snapshot ELSE earlier
  /\ version' = "none"
  /\ fn' = "none"
  /\ args' = NoArgs
  /\ pc' = "idle"
  /\ i' = 0
  /\ x' = Null
  /\ prevX' = Null
  /\ x0' = Null
  /\ x1' = Null
  /\ results' = <<>>
  /\ derivative' = [kind |-> "none"]
  /\ outcome' = "none"
  /\ passes' = 0
  /\ degenAt' = 0
  /\ iterates' = <<>>
  /\ UNCHANGED <<complexAs, cell, form>>

\* inputs of the calls that are repeated
RepeatExpressions == {"log(x) - 1", "x^3 - 3*x + 3", "floor(x)"}

RepeatExpressionsOf(v) == IF v = "ln" THEN {""} ELSE RepeatExpressions

RepeatGuesses == {Lit(2), Lit(-1)}

RepeatIterations == {1, MaxIter}

NextRepeat ==
  \/ \E v \in Versions : \E e \in RepeatExpressionsOf(v),
        g1 \in RepeatGuesses, n \in RepeatIterations :
       fixedPointIteration(v, e, g1, n, 1) /\ UNCHANGED form
  \/ fixedPointPass
  \/ \E v \in Versions : \E e \in RepeatExpressionsOf(v),
        g1 \in RepeatGuesses, n \in RepeatIterations :
       newtonRaphson(v, e, g1, n, 1) /\ UNCHANGED form
  \/ newtonRaphsonPass
  \/ \E v \in Versions : \E e \in RepeatExpressionsOf(v),
        g1 \in RepeatGuesses, g2 \in RepeatGuesses, n \in RepeatIterations :
       secantMethod(v, e, g1, g2, n, 1) /\ UNCHANGED form
  \/ secantPass
  \/ Return
  \/ \E v \in Versions, e \in RepeatExpressions, g1 \in RepeatGuesses :
       approximateDerivative(v, e, g1, Lit(1), 1) /\ UNCHANGED form
  \/ Again

\* any number of calls, one after the other
SpecRepeat == Init /\ [][NextRepeat]_vars

(* ---------------------------------------------------------------------- *)
(* The same call made on both versions                                     *)
(* ---------------------------------------------------------------------- *)

\* the expression that makes part_004 solve the equation hard-wired in
\* src/lib/math-utils.ts: f(x) = ln(x) - 1, and g(x) = x - ln(x) + 1 for
\* fixedPointIteration
TargetExpression(f) ==
  IF f = "fixedPointIteration" THEN "x - log(x) + 1" ELSE "log(x) - 1"

\* no call is over yet: the call to make is the one on src/lib/math-utils.ts
First == earlier.kind = "none"

\* the call on src/lib/math-utils.ts is over: the call to make is the same
\* one on part_004
Second(f) == earlier.kind = "call" /\ earlier.fn = f

NextBoth ==
  \/ \E g1 \in Guesses, n \in 1..MaxIter, p \in Precisions :
       First /\ fixedPointIteration("ln", "", g1, n, p) /\ UNCHANGED form
  \/ /\ Second("fixedPointIteration")
     /\ fixedPointIteration("expr", TargetExpression("fixedPointIteration"),
                            earlier.args.guess1, earlier.args.iterations,
                            earlier.args.precision)
     /\ UNCHANGED form
  \/ fixedPointPass
  \/ \E g1 \in Guesses, n \in 1..MaxIter, p \in Precisions :
       First /\ newtonRaphson("ln", "", g1, n, p) /\ UNCHANGED form
  \/ /\ Second("newtonRaphson")
     /\ newtonRaphson("expr", TargetExpression("newtonRaphson"),
                      earlier.args.guess1, earlier.args.iterations,
                      earlier.args.precision)
     /\ UNCHANGED form
  \/ newtonRaphsonPass
  \/ \E g1 \in Guesses, g2 \in Guesses, n \in 1..MaxIter, p \in Precisions :
       First /\ secantMethod("ln", "", g1, g2, n, p) /\ UNCHANGED form
  \/ /\ Second("secantMethod")
     /\ secantMethod("expr", TargetExpression("secantMethod"),
                     earlier.args.guess1, earlier.args.guess2,
                     earlier.args.iterations, earlier.args.precision)
     /\ UNCHANGED form
  \/ secantPass
  \/ Return
  \/ Again

\* a call on src/lib/math-utils.ts, then the same call on part_004
SpecBoth == Init /\ [][NextBoth]_vars

(* ---------------------------------------------------------------------- *)
(* Forms: ApproximateE (part_002) and ApproximateDerivative (part_003)     *)
(* ---------------------------------------------------------------------- *)

\* the value of a field that was never filled in (JS undefined)
Undefined == "<undefined>"

\* Number(raw), the coercion z.coerce.number() applies to a field value:
\* the empty string is 0, text that is no numeral is NaN
CoerceNumber(raw) ==
  CASE raw = Undefined -> NaN
    [] raw = "" -> Lit(0)
    [] raw = "abc" -> NaN
    [] raw = "Infinity" -> PInf
    [] raw = "0" -> Lit(0)
    [] raw = "1" -> Lit(1)
    [] raw = "2" -> Lit(2)
    [] raw = "3" -> Lit(3)
    [] raw = "-1" -> Lit(-1)
    [] raw = "16" -> Lit(16)
    [] raw = "1001" -> Lit(1001)
    [] raw = "1.5" -> Fin((3 * Scale) \div 2)
    [] raw = "0.1" -> Fin(Scale \div 10)
    [] OTHER -> NaN

\* Number.isInteger
IsInteger(v) == IsFin(v) /\ v[2] % Scale = 0

\* the integer a whole number stands for
IntOf(v) == v[2] \div Scale

\* z.coerce.number().finite()
zFiniteNumber(raw) ==
  ~IsNaN(CoerceNumber(raw)) /\ isFinite(CoerceNumber(raw))

\* z.coerce.number().finite().optional(): undefined passes as it is
zOptionalFiniteNumber(raw) == raw = Undefined \/ zFiniteNumber(raw)

\* z.coerce.number().int().positive().min(1).max(1000)
zIterations(raw) ==
  /\ IsInteger(CoerceNumber(raw))
  /\ CoerceNumber(raw)[2] > 0
  /\ IntOf(CoerceNumber(raw)) >= 1
  /\ IntOf(CoerceNumber(raw)) <= 1000

\* z.coerce.number().int().min(1).max(15)
zPrecision(raw) ==
  /\ IsInteger(CoerceNumber(raw))
  /\ IntOf(CoerceNumber(raw)) >= 1
  /\ IntOf(CoerceNumber(raw)) <= 15

\* z.coerce.number().finite().positive().gt(1e-10)
zStep(raw) ==
  /\ zFiniteNumber(raw)
  /\ CoerceNumber(raw)[2] > 0
  /\ ~LtEps(CoerceNumber(raw))

\* formSchema of ApproximateE; the expression field exists in the
\* expression-based version only
formSchemaE(v, values) ==
  /\ values.method \in {"fixed_point", "newton_raphson", "secant"}
  /\ v = "expr" => values.functionExpression # ""
  /\ zFiniteNumber(values.initialGuess1)
  /\ zOptionalFiniteNumber(values.initialGuess2)
  /\ zIterations(values.iterations)
  /\ zPrecision(values.precision)
  /\ values.method # "secant" \/ values.initialGuess2 # Undefined

\* formSchema of ApproximateDerivative: the expression must be non-empty and
\* parse
formSchemaD(values) ==
  /\ values.expression # ""
  /\ Parses(values.expression)
  /\ zFiniteNumber(values.guessValue)
  /\ zStep(values.h)
  /\ zPrecision(values.precision)

\* the variables of a library call
callVars ==
  <<version, fn, args, pc, i, x, prevX, x0, x1, results, derivative, outcome,
    passes, degenAt, iterates>>

\* variant: onSubmit begun without clearing what the form shows
Running_KeepsPrevious(component, values) ==
  [form EXCEPT !.component = component, !.status = "running",
               !.values = values]

\* onSubmit has begun: setResults(null); setError(null)
Running(component, values) ==
  [component |-> component, status |-> "running", values |-> values,
   results |-> [kind |-> "null"], error |-> "null"]

\* onSubmit ended in setError without a library call having been made
Failed(component, values, message) ==
  [component |-> component, status |-> "shown", values |-> values,
   results |-> [kind |-> "null"], error |-> message]

\* onSubmit of ApproximateE up to the library call; the expression-based
\* version compiles the expression first, and a throw ends in the catch
onSubmitE(v, values) ==
  IF v = "expr" /\ ~Parses(values.functionExpression)
    THEN /\ form' = Failed("ApproximateE", values, "Calculation failed")
         /\ UNCHANGED <<complexAs, cell, earlier, callVars>>
  ELSE IF values.method = "fixed_point"
    THEN /\ fixedPointIteration(v, values.functionExpression,
                                CoerceNumber(values.initialGuess1),
                                IntOf(CoerceNumber(values.iterations)),
                                IntOf(CoerceNumber(values.precision)))
         /\ form' = Running("ApproximateE", values)
  ELSE IF values.method = "newton_raphson"
    THEN /\ newtonRaphson(v, values.functionExpression,
                          CoerceNumber(values.initialGuess1),
                          IntOf(CoerceNumber(values.iterations)),
                          IntOf(CoerceNumber(values.precision)))
         /\ form' = Running("ApproximateE", values)
  ELSE IF values.method = "secant" /\ values.initialGuess2 # Undefined
    THEN /\ secantMethod(v, values.functionExpression,
                         CoerceNumber(values.initialGuess1),
                         CoerceNumber(values.initialGuess2),
                         IntOf(CoerceNumber(values.iterations)),
                         IntOf(CoerceNumber(values.precision)))
         /\ form' = Running("ApproximateE", values)
  ELSE /\ form' = Failed("ApproximateE", values, "Invalid method")
       /\ UNCHANGED <<complexAs, cell, earlier, callVars>>

\* form.handleSubmit(onSubmit) of ApproximateE, on the first submit of a
\* freshly mounted form: the resolver validates the field values and
\* onSubmit runs only if they pass
handleSubmitE(v, values) ==
  /\ pc = "idle"
  /\ form.status = "none"
  /\ IF formSchemaE(v, values)
       THEN onSubmitE(v, values)
       ELSE /\ form' = [form EXCEPT !.component = "ApproximateE",
                                    !.status = "rejected",
                                    !.values = values]
            /\ UNCHANGED <<complexAs, cell, earlier, callVars>>

\* form.handleSubmit(onSubmit) of ApproximateDerivative
handleSubmitD(v, values) ==
  /\ pc = "idle"
  /\ form.status = "none"
  /\ IF formSchemaD(values)
       THEN /\ approximateDerivative(v, values.expression,
                                     CoerceNumber(values.guessValue),
                                     CoerceNumber(values.h),
                                     IntOf(CoerceNumber(values.precision)))
            /\ form' = Running("ApproximateDerivative", values)
       ELSE /\ form' = [form EXCEPT !.component = "ApproximateDerivative",
                                    !.status = "rejected",
                                    !.values = values]
            /\ UNCHANGED <<complexAs, cell, earlier, callVars>>

\* the rest of onSubmit once the library call is over: setResults with what
\* it returned, setError with its error object or after a throw
onSubmitEnd ==
  /\ pc = "done"
  /\ form.status = "running"
  /\ form' =
       IF outcome = "threw"
         THEN [form EXCEPT !.status = "shown", !.error = "Calculation failed"]
       ELSE IF fn = "approximateDerivative"
         THEN IF derivative.kind = "error"
                THEN [form EXCEPT !.status = "shown",
                                  !.error = derivative.error]
                ELSE [form EXCEPT !.status = "shown",
                                  !.results = [kind |-> "derivative",
                                               value |-> derivative]]
       ELSE [form EXCEPT !.status = "shown",
                         !.results = [kind |-> "list", list |-> results]]
  /\ UNCHANGED <<complexAs, cell, earlier, callVars>>

\* what a user may leave or type in the fields
FormMethods == {"fixed_point", "newton_raphson", "secant"}

FormExpressionsOf(v) ==
  IF v = "ln" THEN {""} ELSE {"log(x) - 1", "x +", ""}

RawGuesses == {"2", "", "abc", "Infinity"}

RawSecondGuesses == {Undefined, "", "3", "Infinity"}

RawIterations == {"2", "0", "1001", "1.5"}

RawPrecisions == {"1", "0", "16", "1.5"}

RawSteps == {"0.1", "0", "-1", ""}

FormValuesE(v) ==
  [method : FormMethods, functionExpression : FormExpressionsOf(v),
   initialGuess1 : RawGuesses, initialGuess2 : RawSecondGuesses,
   iterations : RawIterations, precision : RawPrecisions]

FormValuesD ==
  [method : {"derivative"}, expression : {"x^2 - 2", "x +", ""},
   guessValue : RawGuesses, h : RawSteps, precision : RawPrecisions]

NextForm ==
  \/ \E v \in Versions : \E values \in FormValuesE(v) :
       handleSubmitE(v, values)
  \/ \E v \in Versions, values \in FormValuesD : handleSubmitD(v, values)
  \/ fixedPointPass
  \/ newtonRaphsonPass
  \/ secantPass
  \/ Return
  \/ onSubmitEnd

\* the library as driven by the two forms
SpecForm == Init /\ [][NextForm]_vars

(* ---------------------------------------------------------------------- *)
(* Forms: submit after submit, and reset                                   *)
(* ---------------------------------------------------------------------- *)

\* a mounted form imports one version of the library: once a call has been
\* made, later submits call the same version
LibraryOf(v) == earlier.kind = "call" => earlier.version = v

\* a submit of ApproximateE after an earlier submit or a reset: a rejected
\* submit leaves results and error as they are, onSubmit not being called
handleSubmitAgainE(v, values) ==
  /\ pc = "idle"
  /\ form.status \in {"shown", "rejected", "reset"}
  /\ form.component = "ApproximateE"
  /\ LibraryOf(v)
  /\ IF formSchemaE(v, values)
       THEN onSubmitE(v, values)
       ELSE /\ form' = [form EXCEPT !.status = "rejected",
                                    !.values = values]
            /\ UNCHANGED <<complexAs, cell, earlier, callVars>>

\* a submit of ApproximateDerivative after an earlier submit or a reset
handleSubmitAgainD(v, values) ==
  /\ pc = "idle"
  /\ form.status \in {"shown", "rejected", "reset"}
  /\ form.component = "ApproximateDerivative"
  /\ LibraryOf(v)
  /\ IF formSchemaD(values)
       THEN /\ approximateDerivative(v, values.expression,
                                     CoerceNumber(values.guessValue),
                                     CoerceNumber(values.h),
                                     IntOf(CoerceNumber(values.precision)))
            /\ form' = Running(form.component, values)
       ELSE /\ form' = [form EXCEPT !.status = "rejected",
                                    !.values = values]
            /\ UNCHANGED <<complexAs, cell, earlier, callVars>>

\* resetForm: form.reset(); setResults(null); setError(null)
resetForm ==
  /\ pc = "idle"
  /\ form.status \in {"shown", "rejected"}
  /\ form' = [NoForm EXCEPT !.component = form.component,
                            !.status = "reset"]
  /\ UNCHANGED <<complexAs, cell, earlier, callVars>>

\* onSubmit is over and so is its library call
SubmitOver == form.status # "running" /\ Again

\* what a user types between two submits
SeqExpressionsOf(v) == IF v = "ln" THEN {""} ELSE {"log(x) - 1", "y"}

SeqValuesE(v) ==
  [method : FormMethods, functionExpression : SeqExpressionsOf(v),
   initialGuess1 : {"2"}, initialGuess2 : {Undefined, "3"},
   iterations : {"1", "0"}, precision : {"1"}]

SeqValuesD ==
  [method : {"derivative"}, expression : {"x^2 - 2", "y"},
   guessValue : {"2"}, h : {"0.1", "0"}, precision : {"1"}]

NextFormSeq ==
  \/ \E v \in Versions : \E values \in SeqValuesE(v) :
       handleSubmitE(v, values)
  \/ \E v \in Versions, values \in SeqValuesD : handleSubmitD(v, values)
  \/ \E v \in Versions : \E values \in SeqValuesE(v) :
       handleSubmitAgainE(v, values)
  \/ \E v \in Versions, values \in SeqValuesD :
       handleSubmitAgainD(v, values)
  \/ fixedPointPass
  \/ newtonRaphsonPass
  \/ secantPass
  \/ Return
  \/ onSubmitEnd
  \/ SubmitOver
  \/ resetForm

\* the two forms over any sequence of submits and resets
SpecFormSeq == Init /\ [][NextFormSeq]_vars

(* ---------------------------------------------------------------------- *)
(* Error colours of the result tables                                      *)
(* ---------------------------------------------------------------------- *)

\* a <= b, for the variant below
Le(a, b) == Lt(a, b) \/ (IsNumber(a) /\ ~IsNaN(a) /\ a = b)

\* variant: the two thresholds taken inclusive
getErrorColor_InclusiveThresholds(error) ==
  IF IsNull(error) THEN "text-muted-foreground"
  ELSE IF Le(error, Lit(1)) THEN "text-green-600"
  ELSE IF Le(error, Lit(10)) THEN "text-yellow-600"
  ELSE "text-red-600"

\* getErrorColor, the same text in src/lib/math-utils.ts and part_004
getErrorColor(error) ==
  IF IsNull(error) THEN "text-muted-foreground"
  ELSE IF Lt(error, Lit(1)) THEN "text-green-600"
  ELSE IF Lt(error, Lit(10)) THEN "text-yellow-600"
  ELSE "text-red-600"

\* a table cell is rendered: className={getErrorColor(result.relativeError)}
renderErrorCell(error) ==
  /\ cell' = [kind |-> "cell", error |-> error,
              class |-> getErrorColor(error)]
  /\ UNCHANGED <<complexAs, earlier, form, callVars>>

\* errors a cell may hold: null, NaN, the infinities, and the multiples of
\* 0.1 from -1 to 12 together with 0.99 and 9.99
ErrorValues ==
  {Null, NaN, PInf, NInf, Fin(Scale - 1), Fin(10 * Scale - 1)}
    \cup {Fin(k * (Scale \div 10)) : k \in -10..120}

NextColor == \E error \in ErrorValues : renderErrorCell(error)

\* the rendering of error cells
SpecColor == Init /\ [][NextColor]_vars

(* ---------------------------------------------------------------------- *)
(* Properties                                                              *)
(* ---------------------------------------------------------------------- *)

RootFinders == {"fixedPointIteration", "newtonRaphson", "secantMethod"}

\* the call is over and handed a value back to its caller
Returned(f) == pc = "done" /\ fn = f /\ outcome = "returned"

\* the call is over, by return or by exception
Finished(f) == pc = "done" /\ fn = f

\* record k is the regular record of pass k: numbered k, holding the rounded
\* iterate computed in that pass
RegularRecord(k, first) ==
  /\ results[k].iteration = k
  /\ results[k].approximation = ParseFixed(iterates[first + k], args.precision)
  /\ ~IsNull(results[k].relativeError)

\* C1: a returned list of fixedPointIteration, newtonRaphson or secantMethod
\* has at most `iterations` records and their iteration fields are
\* 1, 2, ..., k in order.
C1_IterationFieldsContiguous ==
  \A f \in RootFinders :
    Returned(f) =>
      /\ Len(results) <= args.iterations
      /\ \A k \in 1..Len(results) : results[k].iteration = k

C1_Witness ==
  /\ \E f \in RootFinders : Returned(f)
  /\ Len(results) >= 2
  /\ Len(results) = args.iterations

\* C2: a list returned by newtonRaphson or secantMethod is shorter than
\* `iterations` only if the degeneracy test was true on some pass; when it
\* was true on none, the length equals `iterations`.
C2_ShortOnlyIfDegenerate ==
  \A f \in {"newtonRaphson", "secantMethod"} :
    Returned(f) =>
      /\ Len(results) < args.iterations => degenAt # 0
      /\ degenAt = 0 => Len(results) = args.iterations

C2_Witness ==
  /\ \E f \in {"newtonRaphson", "secantMethod"} : Returned(f)
  /\ degenAt >= 2
  /\ Len(results) < args.iterations

\* value of g at the current iterate of fixedPointIteration
GAtCurrent == IF version = "ln" THEN G(x) ELSE evaluate(args.expression, x)

\* C3: fixedPointIteration has no convergence check: it ends early only by
\* an evaluation of g that does not yield a number, and otherwise returns
\* exactly `iterations` records, also when an error of 0 was recorded.
C3_FixedPointRunsAllIterations ==
  /\ Returned("fixedPointIteration") => Len(results) = args.iterations
  /\ (Finished("fixedPointIteration") /\ outcome = "threw")
       => ~IsNumber(GAtCurrent)

C3_Witness ==
  /\ Returned("fixedPointIteration")
  /\ Len(results) = args.iterations
  /\ \E k \in 1..(Len(results) - 1) : results[k].relativeError = Lit(0)

\* C4 as stated: when newtonRaphson finds |f'(x_k)| < 1e-10 at pass k it
\* returns exactly the records of passes 1..k-1.
C4_Original ==
  (Finished("newtonRaphson") /\ degenAt # 0) =>
    /\ outcome = "returned"
    /\ Len(results) = degenAt - 1

\* C4 amended: when newtonRaphson finds |f'(x_k)| < 1e-10 at pass k it
\* stops there without dividing and returns normally; the list holds the
\* regular records of passes 1..k-1, followed in src/lib/math-utils.ts by
\* one more record {iteration: k, approximation: x_k unrounded,
\* relativeError: null}.
C4_NewtonStopsAtDegeneracy ==
  (Finished("newtonRaphson") /\ degenAt # 0) =>
    /\ outcome = "returned"
    /\ passes = degenAt
    /\ Len(iterates) = degenAt
    /\ \A k \in 1..(degenAt - 1) : RegularRecord(k, 1)
    /\ IF version = "ln"
         THEN /\ Len(results) = degenAt
              /\ results[degenAt] = IterationResult(degenAt, x, Null)
         ELSE Len(results) = degenAt - 1

C4_Witness ==
  /\ Returned("newtonRaphson")
  /\ version = "expr"
  /\ degenAt = 2
  /\ Len(results) = 1

\* C5 as stated: when secantMethod finds |f(x1) - f(x0)| < 1e-10 it returns
\* the records accumulated in the earlier passes and nothing else.
C5_Original ==
  (Finished("secantMethod") /\ degenAt # 0) =>
    /\ outcome = "returned"
    /\ Len(results) = degenAt - 1

\* C5 amended: when secantMethod finds |f(x1) - f(x0)| < 1e-10 at pass k
\* (pass 1 when the guesses are equal) it stops there without dividing and
\* returns normally; the list holds the regular records of passes 1..k-1,
\* followed in src/lib/math-utils.ts by one more record {iteration: k,
\* approximation: x1 unrounded, relativeError: null}.
C5_SecantStopsAtDegeneracy ==
  (Finished("secantMethod") /\ degenAt # 0) =>
    /\ outcome = "returned"
    /\ passes = degenAt
    /\ Len(iterates) = degenAt + 1
    /\ \A k \in 1..(degenAt - 1) : RegularRecord(k, 2)
    /\ IF version = "ln"
         THEN /\ Len(results) = degenAt
              /\ results[degenAt] = IterationResult(degenAt, x1, Null)
         ELSE Len(results) = degenAt - 1

C5_Witness ==
  /\ Returned("secantMethod")
  /\ version = "expr"
  /\ degenAt >= 2
  /\ Len(results) = degenAt - 1

\* f and f' of newtonRaphson at the initial guess
FAtGuess ==
  IF version = "ln" THEN fLn(args.guess1)
  ELSE evaluate(args.expression, args.guess1)

FPrimeAtGuess ==
  IF version = "ln" THEN fPrimeLn(args.guess1)
  ELSE fPrimeExpr(args.expression, args.guess1)

\* the initial guess is a point where f has a value and |f'| < 1e-10
DegenerateGuess ==
  /\ ~IsThrown(FAtGuess)
  /\ ~IsThrown(FPrimeAtGuess)
  /\ LtEps(Abs(ToNumber(FPrimeAtGuess)))

\* C6: newtonRaphson called at a guess where f evaluates and the derivative
\* is degenerate returns, without throwing, a list of length 0 or 1, and a
\* single record has a null relativeError.
C6_DegenerateGuess ==
  (Finished("newtonRaphson") /\ DegenerateGuess) =>
    /\ outcome = "returned"
    /\ Len(results) \in {0, 1}
    /\ Len(results) = 1 => IsNull(results[1].relativeError)

C6_Witness ==
  /\ Returned("newtonRaphson")
  /\ DegenerateGuess
  /\ Len(results) = 1
  /\ IsNull(results[1].relativeError)

\* C7: in a list returned by fixedPointIteration the first record has a null
\* relativeError and every later record a non-null one.
C7_FixedPointFirstErrorNull ==
  Returned("fixedPointIteration") =>
    \A k \in 1..Len(results) : IsNull(results[k].relativeError) <=> k = 1

C7_Witness ==
  /\ Returned("fixedPointIteration")
  /\ Len(results) >= 2

\* |b - a| / |b| * 100 rounded to the call's precision
ErrorBetween(a, b) ==
  ParseFixed(Mul(Div(Abs(Sub(b, a)), Abs(b)), Lit(100)), args.precision)

\* C8 as stated: every record returned by newtonRaphson carries a non-null
\* relativeError, |x_{k+1} - x_k| / |x_{k+1}| * 100 of the iterates before
\* and after its pass.
C8_Original ==
  Returned("newtonRaphson") =>
    \A k \in 1..Len(results) :
      /\ ~IsNull(results[k].relativeError)
      /\ k + 1 <= Len(iterates)
      /\ results[k].relativeError = ErrorBetween(iterates[k], iterates[k + 1])

\* C8 amended: every record newtonRaphson pushes at a non-degenerate pass,
\* the first included, carries a non-null relativeError equal to
\* |x_{k+1} - x_k| / |x_{k+1}| * 100 rounded to `precision` digits; the
\* record src/lib/math-utils.ts pushes at a degenerate pass has a null one.
C8_NewtonErrorEveryStep ==
  Returned("newtonRaphson") =>
    \A k \in 1..Len(results) :
      IF k = degenAt
        THEN IsNull(results[k].relativeError)
        ELSE /\ ~IsNull(results[k].relativeError)
             /\ results[k].relativeError =
                  ErrorBetween(iterates[k], iterates[k + 1])

C8_Witness ==
  /\ Returned("newtonRaphson")
  /\ degenAt = 0
  /\ Len(results) >= 2
  /\ IsFin(results[1].relativeError)
  /\ results[1].relativeError # Lit(0)

\* C9: in a DerivativeResult, symbolic == null implies that forwardError,
\* backwardError and centeredError are null.
C9_NullSymbolicNullErrors ==
  (Returned("approximateDerivative") /\ derivative.kind = "result") =>
    (IsNull(derivative.symbolic) =>
       /\ IsNull(derivative.forwardError)
       /\ IsNull(derivative.backwardError)
       /\ IsNull(derivative.centeredError))

C9_Witness ==
  /\ Returned("approximateDerivative")
  /\ derivative.kind = "result"
  /\ IsNull(derivative.symbolic)
  /\ derivative.backward # Lit(0)

\* f of approximateDerivative at a point
FAt(p) == evaluate(args.expression, p)

\* f is finite at x, x + h and x - h
FiniteAtThreePoints ==
  /\ Parses(args.expression)
  /\ IsFin(FAt(args.guess1))
  /\ IsFin(FAt(Add(args.guess1, args.h)))
  /\ IsFin(FAt(Sub(args.guess1, args.h)))

\* differentiation throws, or the derivative has no finite value at x
SymbolicFails ==
  \/ mathDerivative(args.expression) = "throw"
  \/ ~IsFin(evaluate(mathDerivative(args.expression), args.guess1))

\* C10: when f is finite at x, x + h and x - h but the symbolic derivative
\* cannot be obtained or evaluated at x, approximateDerivative still returns
\* a DerivativeResult with the three finite differences, symbolic == null
\* and the three errors null.
C10_SymbolicFailureNotFatal ==
  (Returned("approximateDerivative") /\ FiniteAtThreePoints /\ SymbolicFails)
    => /\ derivative.kind = "result"
       /\ IsNumber(derivative.forward)
       /\ IsNumber(derivative.backward)
       /\ IsNumber(derivative.centered)
       /\ IsNull(derivative.symbolic)
       /\ IsNull(derivative.forwardError)
       /\ IsNull(derivative.backwardError)
       /\ IsNull(derivative.centeredError)

\* a DerivativeResult whose three differences are finite numbers
FiniteDifferences ==
  /\ IsFin(derivative.forward)
  /\ IsFin(derivative.backward)
  /\ IsFin(derivative.centered)

\* C11: when f at x, x + h or x - h cannot be evaluated or is not a finite
\* real number (NaN, Infinity, complex), approximateDerivative returns an
\* error and no DerivativeResult; a returned DerivativeResult never has a
\* NaN or infinite forward, backward or centered field.
C11_NonFiniteEvaluationIsError ==
  Returned("approximateDerivative") =>
    /\ ~FiniteAtThreePoints => derivative.kind = "error"
    /\ derivative.kind = "result" => FiniteDifferences

\* the symbolic derivative at x before rounding, as the call obtains it
SymbolicUnrounded ==
  IF version = "ln" THEN symbolicLn(args.expression, args.guess1)
  ELSE symbolicExpr(args.expression, args.guess1)

\* f at a point as the arithmetic of the call sees it
FNumberAt(p) == ToNumber(FAt(p))

\* the three differences before rounding
ForwardUnrounded ==
  Div(Sub(FNumberAt(Add(args.guess1, args.h)), FNumberAt(args.guess1)),
      args.h)

BackwardUnrounded ==
  Div(Sub(FNumberAt(args.guess1), FNumberAt(Sub(args.guess1, args.h))),
      args.h)

CenteredUnrounded ==
  Div(Sub(FNumberAt(Add(args.guess1, args.h)),
          FNumberAt(Sub(args.guess1, args.h))),
      Mul(Lit(2), args.h))

\* |v| >= 1e-10, false for NaN
GeEps(v) == IsInf(v) \/ (IsFin(v) /\ v[2] # 0)

\* the symbolic value exists and |symbolic| >= 1e-10
SymbolicUsable ==
  /\ IsNumber(SymbolicUnrounded)
  /\ GeEps(SymbolicUnrounded)

\* |approx - symbolic| / |symbolic| * 100 as the version stores it: rounded
\* in src/lib/math-utils.ts, as computed in part_004
ErrorAgainstSymbolic(approx) ==
  IF version = "ln"
    THEN ParseFixed(Mul(Div(Abs(Sub(approx, SymbolicUnrounded)),
                            Abs(SymbolicUnrounded)), Lit(100)),
                    args.precision)
    ELSE Mul(Div(Abs(Sub(approx, SymbolicUnrounded)),
                 Abs(SymbolicUnrounded)), Lit(100))

\* C12: in a DerivativeResult each error field is non-null exactly when the
\* unrounded symbolic value exists and |symbolic| >= 1e-10, and then equals
\* |approx - symbolic| / |symbolic| * 100; when the symbolic value exists
\* with |symbolic| < 1e-10 the three errors are null and symbolic is not.
C12_ErrorIffSymbolicUsable ==
  (Returned("approximateDerivative") /\ derivative.kind = "result") =>
    /\ ~IsNull(derivative.forwardError) <=> SymbolicUsable
    /\ ~IsNull(derivative.backwardError) <=> SymbolicUsable
    /\ ~IsNull(derivative.centeredError) <=> SymbolicUsable
    /\ SymbolicUsable =>
         /\ derivative.forwardError = ErrorAgainstSymbolic(ForwardUnrounded)
         /\ derivative.backwardError = ErrorAgainstSymbolic(BackwardUnrounded)
         /\ derivative.centeredError = ErrorAgainstSymbolic(CenteredUnrounded)
    /\ (IsNumber(SymbolicUnrounded) /\ LtEps(Abs(SymbolicUnrounded))) =>
         /\ ~IsNull(derivative.symbolic)
         /\ IsNull(derivative.forwardError)
         /\ IsNull(derivative.backwardError)
         /\ IsNull(derivative.centeredError)

\* v, when a finite number, has at most p digits after the decimal point
HasAtMostDigits(v, p) ==
  IsFin(v) => (p >= Digits \/ v[2] % Pow10(Digits - p) = 0)

\* C13: every numeric field of every returned result has at most
\* `precision` digits after the decimal point: approximation and non-null
\* relativeError of every record, the record of a degenerate step included,
\* and the seven fields of a DerivativeResult.
C13_OutputsRounded ==
  /\ \A f \in RootFinders :
       Returned(f) =>
         \A k \in 1..Len(results) :
           /\ HasAtMostDigits(results[k].approximation, args.precision)
           /\ HasAtMostDigits(results[k].relativeError, args.precision)
  /\ (Returned("approximateDerivative") /\ derivative.kind = "result") =>
       /\ HasAtMostDigits(derivative.forward, args.precision)
       /\ HasAtMostDigits(derivative.backward, args.precision)
       /\ HasAtMostDigits(derivative.centered, args.precision)
       /\ HasAtMostDigits(derivative.forwardError, args.precision)
       /\ HasAtMostDigits(derivative.backwardError, args.precision)
       /\ HasAtMostDigits(derivative.centeredError, args.precision)
       /\ HasAtMostDigits(derivative.symbolic, args.precision)

\* the call just finished had the same function, version and arguments as
\* the remembered earlier call
SameCallAsEarlier ==
  /\ pc = "done"
  /\ earlier.kind = "call"
  /\ earlier.version = version
  /\ earlier.fn = fn
  /\ earlier.args = args

GValueAt(p) == IF version = "ln" THEN G(p) ELSE evaluate(args.expression, p)

\* in some pass made so far the evaluation of g threw or gave something
\* other than a finite real number
GFailed == \E k \in 1..passes : ~IsFin(GValueAt(iterates[k]))

\* C15: when the evaluation of g fails in some pass, fixedPointIteration
\* fails as a whole: it returns no list, neither the records of the earlier
\* passes nor a list with non-finite approximations.
C15_FixedPointFailsAsAWhole ==
  (Finished("fixedPointIteration") /\ GFailed) => outcome = "threw"

\* f' of newtonRaphson at a point, Thrown when the differentiation or the
\* evaluation of the derivative throws
FPrimeAt(p) ==
  IF version = "ln" THEN fPrimeLn(p) ELSE fPrimeExpr(args.expression, p)

\* in some pass made so far f' could not be computed
FPrimeFailed == \E k \in 1..passes : IsThrown(FPrimeAt(iterates[k]))

InContractE(values) ==
  /\ IsFin(CoerceNumber(values.initialGuess1))
  /\ IsInteger(CoerceNumber(values.iterations))
  /\ IntOf(CoerceNumber(values.iterations)) \in 1..1000
  /\ IsInteger(CoerceNumber(values.precision))
  /\ IntOf(CoerceNumber(values.precision)) \in 1..15
  /\ values.method = "secant" =>
       /\ values.initialGuess2 \notin {Undefined, ""}
       /\ IsFin(CoerceNumber(values.initialGuess2))

\* the field values of ApproximateDerivative are within the contract
InContractD(values) ==
  /\ IsFin(CoerceNumber(values.guessValue))
  /\ IsFin(CoerceNumber(values.h))
  /\ CoerceNumber(values.h)[2] > 0
  /\ IsInteger(CoerceNumber(values.precision))
  /\ IntOf(CoerceNumber(values.precision)) \in 1..15

\* C17: submitted values outside the contract (non-finite guess, iterations
\* outside 1..1000 or not whole, precision outside 1..15 or not whole, no
\* second guess for secant, h <= 1e-10) never lead to a call of a library
\* function and never to a result.
C17_FormRejectsOutOfContract ==
  /\ (form.component = "ApproximateE" /\ ~InContractE(form.values)) =>
       (fn = "none" /\ form.results.kind = "null")
  /\ (form.component = "ApproximateDerivative"
        /\ ~InContractD(form.values)) =>
       (fn = "none" /\ form.results.kind = "null")

\* the four classes
ErrorClasses ==
  {"text-muted-foreground", "text-green-600", "text-yellow-600",
   "text-red-600"}

\* C18: getErrorColor gives every nullable error exactly one class: null
\* the unknown class, error < 1 green, 1 <= error < 10 yellow, error >= 10
\* red; the value 1 is yellow and the value 10 is red.
C18_ErrorColorClasses ==
  cell.kind = "cell" =>
    /\ cell.class \in ErrorClasses
    /\ IsNull(cell.error) <=> cell.class = "text-muted-foreground"
    /\ IsFin(cell.error) =>
         /\ cell.error[2] < Scale => cell.class = "text-green-600"
         /\ (Scale <= cell.error[2] /\ cell.error[2] < 10 * Scale)
              => cell.class = "text-yellow-600"
         /\ cell.error[2] >= 10 * Scale => cell.class = "text-red-600"
    /\ cell.error = NInf => cell.class = "text-green-600"
    /\ cell.error = PInf => cell.class = "text-red-600"

C18_Witness ==
  /\ cell.kind = "cell"
  /\ cell.error = Lit(10)
  /\ cell.class = "text-red-600"

\* a root-finder is inside its loop or about to return
InCall == pc \in {"loop", "exit"}

\* C19: a call of fixedPointIteration, newtonRaphson or secantMethod makes
\* at most `iterations` loop passes, each appending at most one record, and
\* always ends, by returning its list or by throwing.
C19_Terminates ==
  /\ [](\A f \in RootFinders :
          fn = f => (passes <= args.iterations /\ Len(results) <= passes))
  /\ InCall ~> pc = "done"

C19_Witness ==
  /\ \E f \in RootFinders : Returned(f)
  /\ passes = args.iterations
  /\ passes = MaxIter

\* number of initial guesses at the head of iterates
GuessCount == IF fn = "secantMethod" THEN 2 ELSE 1

\* value of f at a point, as the passes of newtonRaphson and secantMethod
\* use it
FValueAt(p) ==
  IF version = "ln" THEN fLn(p) ELSE ToNumber(evaluate(args.expression, p))

\* the iterate pass k computes from the unrounded iterates before it
UnroundedNext(k) ==
  CASE fn = "fixedPointIteration" -> GValueAt(iterates[k])
    [] fn = "newtonRaphson" ->
         NewtonNext(iterates[k], FValueAt(iterates[k]),
                    ToNumber(FPrimeAt(iterates[k])))
    [] OTHER ->
         SecantNext(iterates[k], iterates[k + 1], FValueAt(iterates[k]),
                    FValueAt(iterates[k + 1]))

\* the variables a pass reads hold the last unrounded iterates
CarriesUnrounded ==
  IF fn = "secantMethod"
    THEN /\ x1 = iterates[Len(iterates)]
         /\ x0 = iterates[Len(iterates) - 1]
    ELSE x = iterates[Len(iterates)]

\* C20: in the three root-finders the iterate carried into pass k + 1 is the
\* unrounded value pass k computed from the unrounded iterates before it,
\* never the rounded approximation of the record; the record of pass k holds
\* that value rounded to `precision` digits, and its relativeError is
\* computed from the unrounded iterates and then rounded.
C20_UnroundedBetweenSteps ==
  \A f \in RootFinders :
    (fn = f /\ pc # "idle") =>
      /\ CarriesUnrounded
      /\ iterates[1] = args.guess1
      /\ f = "secantMethod" => iterates[2] = args.guess2
      /\ \A k \in 1..Len(results) :
           k # degenAt =>
             /\ iterates[GuessCount + k] = UnroundedNext(k)
             /\ results[k].approximation =
                  ParseFixed(iterates[GuessCount + k], args.precision)
             /\ results[k].relativeError =
                  IF f = "fixedPointIteration" /\ k = 1 THEN Null
                  ELSE ErrorBetween(iterates[GuessCount + k - 1],
                                    iterates[GuessCount + k])

C20_Witness ==
  /\ \E f \in RootFinders : Returned(f)
  /\ degenAt = 0
  /\ \E k \in 1..(Len(results) - 1) :
       /\ IsFin(iterates[GuessCount + k])
       /\ results[k].approximation # iterates[GuessCount + k]
       /\ IsFin(results[k + 1].approximation)


\* C21: a non-degenerate pass k of secantMethod computes
\* x_next = x1 - f(x1) * (x1 - x0) / (f(x1) - f(x0)) from the current pair,
\* records it with the error |x_next - x1| / |x_next| * 100, and shifts the
\* pair to (old x1, x_next): at the head of pass i the pair is the two
\* iterates before it, the guesses for i = 1.
C21_SecantStepAndShift ==
  (fn = "secantMethod" /\ pc = "loop") =>
    /\ Len(iterates) = i + 1
    /\ x0 = IF i = 1 THEN args.guess1 ELSE iterates[i]
    /\ x1 = IF i = 1 THEN args.guess2 ELSE iterates[i + 1]
    /\ \A k \in 1..(i - 1) :
         /\ iterates[k + 2] =
              SecantNext(iterates[k], iterates[k + 1],
                         FValueAt(iterates[k]), FValueAt(iterates[k + 1]))
         /\ results[k].approximation =
              ParseFixed(iterates[k + 2], args.precision)
         /\ results[k].relativeError =
              ErrorBetween(iterates[k + 1], iterates[k + 2])

C21_Witness ==
  /\ fn = "secantMethod"
  /\ pc = "loop"
  /\ i = 3
  /\ \A k \in 1..4 : IsFin(iterates[k])
  /\ iterates[2] # iterates[3]
  /\ iterates[3] # iterates[4]


\* C22: in fixedPointIteration the unrounded iterates satisfy
\* x_{k+1} = g(x_k) from x_0 = initialGuess; record k stores x_k rounded
\* and, for k >= 2, |x_k - x_{k-1}| / |x_k| * 100 rounded; the error is null
\* for k = 1 only, although x_0 is at hand in that pass.
C22_FixedPointRecurrence ==
  (fn = "fixedPointIteration" /\ pc # "idle") =>
    /\ iterates[1] = args.guess1
    /\ (pc = "loop" /\ i = 1) => (x = args.guess1 /\ IsNull(prevX))
    /\ \A k \in 1..Len(results) :
         /\ iterates[k + 1] = GValueAt(iterates[k])
         /\ results[k].approximation =
              ParseFixed(iterates[k + 1], args.precision)
         /\ IsNull(results[k].relativeError) <=> k = 1
         /\ k >= 2 => results[k].relativeError =
                        ErrorBetween(iterates[k], iterates[k + 1])

C22_Witness ==
  /\ Returned("fixedPointIteration")
  /\ Len(results) = MaxIter
  /\ \A k \in 1..(MaxIter + 1) : IsFin(iterates[k])
  /\ iterates[1] # iterates[2]
  /\ IsFin(results[2].relativeError)
  /\ results[2].relativeError # Lit(0)


\* the three unrounded differences are finite
UnroundedFinite ==
  /\ IsFin(ForwardUnrounded)
  /\ IsFin(BackwardUnrounded)
  /\ IsFin(CenteredUnrounded)

\* a and b are equal up to one unit of the last digit the arithmetic keeps
\* (the division by 2h drops at most that much)
WithinOneUnit(a, b) ==
  /\ IsFin(a)
  /\ IsFin(b)
  /\ a[2] - b[2] \in {-1, 0, 1}

\* C23: the forward, backward and centered fields of a DerivativeResult are
\* (f(x+h) - f(x)) / h, (f(x) - f(x-h)) / h and (f(x+h) - f(x-h)) / (2h) of
\* the values of f at the three points x, x + h and x - h, rounded; before
\* rounding, centered is the mean of forward and backward up to the last
\* digit of the arithmetic.
C23_ThreeDifferences ==
  (Returned("approximateDerivative") /\ derivative.kind = "result") =>
    /\ derivative.forward = ParseFixed(ForwardUnrounded, args.precision)
    /\ derivative.backward = ParseFixed(BackwardUnrounded, args.precision)
    /\ derivative.centered = ParseFixed(CenteredUnrounded, args.precision)
    /\ (UnroundedFinite
         /\ IsFin(Add(ForwardUnrounded, BackwardUnrounded))) =>
         WithinOneUnit(Mul(Lit(2), CenteredUnrounded),
                       Add(ForwardUnrounded, BackwardUnrounded))

C23_Witness ==
  /\ Returned("approximateDerivative")
  /\ derivative.kind = "result"
  /\ UnroundedFinite
  /\ ForwardUnrounded # BackwardUnrounded
  /\ CenteredUnrounded # ForwardUnrounded
  /\ CenteredUnrounded # Lit(0)


\* the degeneracy test of pass k, recomputed from the iterates the pass
\* reads: |f'(x)| < 1e-10 in newtonRaphson, |f(x1) - f(x0)| < 1e-10 in
\* secantMethod; fixedPointIteration has none
DegeneracyHeldAt(k) ==
  CASE fn = "newtonRaphson" ->
         /\ k <= Len(iterates)
         /\ LtEps(Abs(ToNumber(FPrimeAt(iterates[k]))))
    [] fn = "secantMethod" ->
         /\ k + 1 <= Len(iterates)
         /\ LtEps(Abs(Sub(FValueAt(iterates[k + 1]), FValueAt(iterates[k]))))
    [] OTHER -> FALSE

\* C24: in a list built by a root-finder a record has a null relativeError
\* only if it is the first record of a run of fixedPointIteration or was
\* pushed at a pass where the degeneracy test held.
C24_NullErrorOnlyFirstOrDegenerate ==
  \A f \in RootFinders :
    (fn = f /\ pc # "idle") =>
      \A k \in 1..Len(results) :
        IsNull(results[k].relativeError) =>
          \/ (f = "fixedPointIteration" /\ k = 1)
          \/ (k = degenAt /\ DegeneracyHeldAt(k))

C24_Witness ==
  /\ \E f \in {"newtonRaphson", "secantMethod"} : Returned(f)
  /\ Len(results) >= 2
  /\ IsNull(results[Len(results)].relativeError)
  /\ results[1].relativeError = Lit(0)


\* the list a is the beginning of the list b
IsPrefix(a, b) ==
  /\ Len(a) <= Len(b)
  /\ \A k \in 1..Len(a) : a[k] = b[k]

\* C25: during a run of a root-finder the result list only grows by
\* appending: over every step of the run the list before is a prefix of the
\* list after, at most one record longer; no record already appended is
\* changed or removed.
C25_ResultsAppendOnly ==
  [][InCall => (/\ IsPrefix(results, results')
                /\ Len(results') <= Len(results) + 1)]_vars

C25_Witness ==
  /\ \E f \in RootFinders : fn = f
  /\ pc = "exit"
  /\ Len(results) >= 2
  /\ passes = Len(results) + 1


\* a field of a DerivativeResult holds a number or null
NumberOrNull(v) == IsNumber(v) \/ IsNull(v)

\* a complete DerivativeResult: the seven fields and nothing else
CompleteDerivativeResult(d) ==
  /\ DOMAIN d = {"kind", "forward", "backward", "centered", "forwardError",
                 "backwardError", "centeredError", "symbolic"}
  /\ IsNumber(d.forward)
  /\ IsNumber(d.backward)
  /\ IsNumber(d.centered)
  /\ NumberOrNull(d.forwardError)
  /\ NumberOrNull(d.backwardError)
  /\ NumberOrNull(d.centeredError)
  /\ NumberOrNull(d.symbolic)

\* an object {error: string} and nothing else
ErrorObject(d) ==
  /\ DOMAIN d = {"kind", "error"}
  /\ d.error \in STRING

\* C26: approximateDerivative never throws to its caller: for every input,
\* an unparsable expression, an undefined symbol, a failing evaluation and a
\* precision toFixed rejects included, it returns either a complete
\* DerivativeResult or an object {error: string}, never a mixture.
C26_DerivativeNeverThrows ==
  Finished("approximateDerivative") =>
    /\ outcome = "returned"
    /\ \/ derivative.kind = "result" /\ CompleteDerivativeResult(derivative)
       \/ derivative.kind = "error" /\ ErrorObject(derivative)

C26_Witness ==
  /\ Returned("approximateDerivative")
  /\ args.precision = 101
  /\ args.expression = "x^2 - 2"
  /\ args.guess1 = Lit(2)
  /\ derivative.kind = "error"


\* v >= 0 as JavaScript compares numbers: false for NaN
GeZero(v) == IsNumber(v) /\ ~IsNaN(v) /\ ~Lt(v, Lit(0))

\* C27: in every DerivativeResult the three error fields are null together
\* or non-null together, and every non-null error field is >= 0.
C27_ErrorsTogetherAndNonNegative ==
  (Returned("approximateDerivative") /\ derivative.kind = "result") =>
    /\ IsNull(derivative.forwardError) <=> IsNull(derivative.backwardError)
    /\ IsNull(derivative.forwardError) <=> IsNull(derivative.centeredError)
    /\ \A e \in {derivative.forwardError, derivative.backwardError,
                  derivative.centeredError} :
         ~IsNull(e) => GeZero(e)


\* the iterate the degeneracy test of pass k leaves in x (newtonRaphson) or
\* x1 (secantMethod)
CurrentAt(k) == iterates[GuessCount + k - 1]

\* C28: in src/lib/math-utils.ts, when the degeneracy test holds at pass k,
\* newtonRaphson (secantMethod) appends one more record {iteration: k,
\* approximation: the current x (x1) unrounded, relativeError: null} and
\* leaves the loop: the returned list has length k, and a record with a null
\* relativeError can only be its last.
C28_ExtraRecordAtDegeneracy ==
  \A f \in {"newtonRaphson", "secantMethod"} :
    (version = "ln" /\ Returned(f)) =>
      /\ \A k \in 1..passes :
           DegeneracyHeldAt(k) =>
             /\ k = passes
             /\ Len(results) = k
             /\ results[k] = IterationResult(k, CurrentAt(k), Null)
      /\ \A k \in 1..Len(results) :
           IsNull(results[k].relativeError) => k = Len(results)

C28_Witness ==
  /\ version = "ln"
  /\ \E f \in {"newtonRaphson", "secantMethod"} : Returned(f)
  /\ passes >= 2
  /\ DegeneracyHeldAt(passes)
  /\ Len(results) = passes
  /\ results[passes].approximation
       # ParseFixed(results[passes].approximation, args.precision)


\* the call that is over was made on part_004 with the target expression
\* and the arguments of the earlier call on src/lib/math-utils.ts
PairedCall ==
  /\ pc = "done"
  /\ version = "expr"
  /\ earlier.kind = "call"
  /\ earlier.version = "ln"
  /\ earlier.fn = fn
  /\ args = [earlier.args EXCEPT !.expression = TargetExpression(fn)]

\* the first n records of a and b agree on what a caller observes:
\* iteration number, approximation, null or non-null error
SameRecordsUpTo(a, b, n) ==
  \A k \in 1..n :
    /\ a[k].iteration = b[k].iteration
    /\ a[k].approximation = b[k].approximation
    /\ IsNull(a[k].relativeError) <=> IsNull(b[k].relativeError)

\* C29: on the target equation the two versions return the same record
\* sequence (length, iteration numbers, approximations, null or non-null
\* errors) for all guesses, iterations and precisions, runs where the
\* degeneracy test holds included.
C29_VersionsEquivalent ==
  PairedCall =>
    /\ outcome = earlier.outcome
    /\ Len(results) = Len(earlier.results)
    /\ SameRecordsUpTo(results, earlier.results, Len(results))


\* no iterate of the run is negative: every logarithm the run takes is real
RealLogarithms ==
  \A k \in 1..Len(iterates) : ~Lt(iterates[k], Lit(0))

\* what does hold of the two versions on the target equation: on a run that
\* takes no logarithm of a negative number they return the same record
\* sequence when the degeneracy test never holds, and when it holds at pass
\* k src/lib/math-utils.ts returns the records of part_004 followed by one
\* more record {iteration: k, approximation: the current iterate unrounded,
\* relativeError: null}.
EquivalentUpToExtraRecord ==
  (PairedCall /\ RealLogarithms) =>
    /\ outcome = earlier.outcome
    /\ Len(results) <= Len(earlier.results)
    /\ SameRecordsUpTo(results, earlier.results, Len(results))
    /\ IF degenAt = 0
         THEN Len(earlier.results) = Len(results)
         ELSE /\ Len(earlier.results) = Len(results) + 1
              /\ earlier.results[degenAt] =
                   IterationResult(degenAt, CurrentAt(degenAt), Null)

EquivalentUpToExtraRecord_Reached ==
  /\ PairedCall
  /\ RealLogarithms
  /\ outcome = "returned"
  /\ degenAt >= 2
  /\ Len(results) = degenAt - 1
  /\ Len(earlier.results) = degenAt


\* what the form shows
ShowsResults == form.results.kind # "null"

ShowsError == form.error # "null"

\* C30: in the two forms, over any sequence of submits and resets, onSubmit
\* first clears results and error, and when it is over exactly one of them
\* is set, results on success and error on failure; results of an earlier
\* submit are never shown together with an error; reset leaves both null.
C30_ResultsAndErrorExclusive ==
  /\ form.status = "running" => (~ShowsResults /\ ~ShowsError)
  /\ form.status = "reset" => (~ShowsResults /\ ~ShowsError)
  /\ form.status = "shown" => (ShowsResults <=> ~ShowsError)
  /\ ~(ShowsResults /\ ShowsError)

C30_Witness ==
  /\ form.status = "shown"
  /\ ShowsError
  /\ ~ShowsResults
  /\ earlier.kind = "call"
  /\ earlier.outcome = "returned"
  /\ \/ Len(earlier.results) >= 1
     \/ earlier.derivative.kind = "result"


====
